---- MODULE Spec2Model ----
(***************************************************************************)
(* VidyaSetu AI: the React client (src/src/app/App.tsx, the zustand store  *)
(* at the end of that file, src/src/api/client.ts) and the streaming       *)
(* three-stage response pipeline it talks to.  The backend (FastAPI,       *)
(* backend/main.py) is not among the source files; the pipeline and the    *)
(* server-side profile store are modelled from the specification and are   *)
(* marked as such where they are defined.                                  *)
(***************************************************************************)
EXTENDS Integers, Sequences, FiniteSets, TLC

(***************************************************************************)
(* Bounds of the model.                                                    *)
(***************************************************************************)
MaxQueries == 2
\* queries (channels) opened in one behaviour

MaxInputLen == 1
\* characters typed into the chat input

MaxLogins == 2
\* successful logins in one behaviour

MaxSubmits == 3
\* game results submitted in one behaviour

MaxStudents == 2
\* students who log in on the one client

MaxUploads == 2
\* upload requests made in one behaviour

MaxSpeaks == 3
\* text-to-speech requests made in one behaviour

VARIABLES
    student,                 \* store.student: <<>> (null) or <<profile>>
    messages,                \* store.messages
    currentScreen,           \* store.currentScreen
    isStreaming,             \* ChatScreen useState: isStreaming
    currentStreamingMessage, \* ChatScreen useState: currentStreamingMessage
    es,                      \* per query: the EventSource and the closure of its handlers
    srv,                     \* per query: the position of the server's pipeline run
    emitted,                 \* per query: the events the pipeline has produced on the channel
    delivered,               \* per query: the events dispatched to eventSource.onmessage
    nq,                      \* number of channels opened so far
    nLogins,                 \* number of logins so far
    now,                     \* Date.now(), in milliseconds
    game,                    \* GameScreen: the mounted instance and its useState
    subs,                    \* per game-result submission: where its handleAnswer call is
    store,                   \* the server's profile of each student: XP and results recorded
    loginXp,                 \* the XP of the profile the last login returned
    isUploading,             \* store.isUploading
    uploadProgress,          \* store.uploadProgress
    upload,                  \* UploadScreen: its useState, its interval and its requests
    isLoading,               \* store.isLoading
    theme,                   \* store.theme
    speech                   \* ChatScreen: speakingMessageId, audioRef and the calls of handleSpeak

storeVars  == <<student, messages, currentScreen>>
chatVars   == <<isStreaming, currentStreamingMessage, speech>>
streamVars == <<es, srv, emitted, delivered, nq>>
gameVars   == <<game, subs, store, loginXp>>
uploadVars == <<isUploading, uploadProgress, upload>>
uiVars     == <<isLoading, theme>>
vars == <<student, messages, currentScreen, isStreaming,
          currentStreamingMessage, es, srv, emitted, delivered, nq, nLogins, now,
          game, subs, store, loginXp, isUploading, uploadProgress, upload,
          isLoading, theme, speech>>

Queries == 1..MaxQueries
Students == 1..MaxStudents

(***************************************************************************)
(* Strings are sequences of characters, so that trim() has something to    *)
(* do.  Chars is the alphabet typed into the chat input; what the input    *)
(* holds when handleSend runs (inputValue) is the parameter of HandleSend. *)
(***************************************************************************)
Chars == {" ", "a"}

RECURSIVE TrimStart(_)
TrimStart(s) == IF s # <<>> /\ Head(s) = " " THEN TrimStart(Tail(s)) ELSE s

RECURSIVE TrimEnd(_)
TrimEnd(s) ==
    IF s # <<>> /\ s[Len(s)] = " " THEN TrimEnd(SubSeq(s, 1, Len(s) - 1)) ELSE s

\* String.prototype.trim
Trim(s) == TrimEnd(TrimStart(s))

RECURSIVE SeqsUpTo(_)
SeqsUpTo(n) ==
    IF n = 0 THEN {<<>>}
    ELSE LET shorter == SeqsUpTo(n - 1)
         IN  shorter \cup {Append(s, c) : s \in {t \in shorter : Len(t) = n - 1}, c \in Chars}

Inputs == SeqsUpTo(MaxInputLen)

(***************************************************************************)
(* Message ids.  `user-${Date.now()}`, `q_${Date.now()}`, the welcome      *)
(* message's Date.now().toString() and the server's query_id are strings   *)
(* of different shapes: a prefix and a number.                             *)
(***************************************************************************)
UserId(t)    == [k |-> "user-", n |-> t]
ClientQId(t) == [k |-> "q_", n |-> t]
WelcomeId(t) == [k |-> "", n |-> t]
ServerQId(q) == [k |-> "srv", n |-> q]
NoQueryId    == [k |-> "absent", n |-> 0]

(***************************************************************************)
(* The wire events of /api/chat/stream.                                    *)
(***************************************************************************)
Stages == <<"explainer", "simplifier", "encourager">>
LastStage == Len(Stages)

StageEvent(k, status, text) ==
    [type |-> "stage", agent |-> Stages[k], status |-> status, text |-> text]

FinalEvent(text, qid, safe) ==
    [type |-> "final", final |-> text, query_id |-> qid, safety_verified |-> safe]

Sentinel == [type |-> "[DONE]"]

StageText(k) == <<"explained", "simplified", "encouraged">>[k]
FallbackText == "sorry"

\* What a stage can return: its text; the last stage, whose output becomes
\* the final answer, may also return nothing at all.
StageOutputs(k) == IF k = LastStage THEN {StageText(k), ""} ELSE {StageText(k)}

(***************************************************************************)
(* The zustand store.                                                      *)
(***************************************************************************)
\* addMessage: (message) => set(state => ({messages: [...state.messages, message]}))
\* The new message put first: [message, ...state.messages]
AddMessagePrepends(msgs, message) == <<message>> \o msgs

\* useAppStore.addMessage: [...state.messages, message]
AddMessage(msgs, message) == Append(msgs, message)

UserMessage(id, content) ==
    [id |-> id, role |-> "user", content |-> content]

AiMessage(id, content, steps, safe) ==
    [id |-> id, role |-> "ai", content |-> content, thoughtExpanded |-> FALSE,
     agentSteps |-> steps, safety_verified |-> safe]

WelcomeMessage(t) ==
    [id |-> WelcomeId(t), role |-> "ai", content |-> "welcome",
     thoughtExpanded |-> FALSE, safety_verified |-> TRUE]

(***************************************************************************)
(* The EventSource of one query and the variables its handlers close over. *)
(***************************************************************************)
NoSource ==
    [readyState |-> "NONE", query |-> <<>>, student_id |-> 0, alive |-> FALSE,
     closeCalled |-> FALSE, fullResponse |-> "", agentSteps |-> <<>>, appended |-> 0]

\* api.createChatStream(query, studentId): new EventSource(url), and the
\* variables handleSend declares for its handlers
CreateChatStream(query, studentId) ==
    [readyState |-> "OPEN", query |-> query, student_id |-> studentId, alive |-> TRUE,
     closeCalled |-> FALSE, fullResponse |-> "", agentSteps |-> <<>>, appended |-> 0]

\* A close that leaves the connection as it was.
EsCloseNoEffect(e) == [e EXCEPT !.closeCalled = TRUE]

\* eventSource.close()
EsClose(e) == [e EXCEPT !.readyState = "CLOSED", !.closeCalled = TRUE]

\* data.agent.charAt(0).toUpperCase() + data.agent.slice(1) + ' Agent'
AgentLabel(agent) ==
    CASE agent = "explainer"  -> "Explainer Agent"
      [] agent = "simplifier" -> "Simplifier Agent"
      [] agent = "encourager" -> "Encourager Agent"
      [] OTHER                -> "Agent"

\* data.text || (data.status === 'thinking' ? `Thinking...` : 'Finished step')
StepAction(ev) ==
    IF ev.text # "" THEN ev.text
    ELSE IF ev.status = "thinking" THEN "Thinking..." ELSE "Finished step"

AgentStep(ev) == [agent |-> AgentLabel(ev.agent), action |-> StepAction(ev)]

\* A setState of the ChatScreen instance that opened the channel: it has no
\* effect once that instance is unmounted.
SetIsStreaming(q, v) ==
    isStreaming' = IF es[q].alive THEN v ELSE isStreaming

SetCurrentStreamingMessage(q, v) ==
    currentStreamingMessage' = IF es[q].alive THEN v ELSE currentStreamingMessage

\* The sentinel branch without its setIsStreaming(false).
OnDoneKeepsStreaming(q) ==
    /\ es' = [es EXCEPT ![q] = EsClose(@)]
    /\ UNCHANGED <<messages, isStreaming, currentStreamingMessage>>

\* onmessage, event.data === '[DONE]'
OnDone(q) ==
    /\ es' = [es EXCEPT ![q] = EsClose(@)]
    /\ SetIsStreaming(q, FALSE)
    /\ UNCHANGED <<messages, currentStreamingMessage>>

\* The agent branch recording a step only for a finished stage.
OnAgentDoneOnly(q, ev) ==
    LET shown == ev.status = "done" /\ ev.text # ""
    IN  /\ es' = [es EXCEPT ![q].fullResponse = IF shown THEN ev.text ELSE @,
                            ![q].agentSteps = IF ev.status = "done"
                                                THEN Append(@, AgentStep(ev)) ELSE @]
        /\ IF shown
             THEN SetCurrentStreamingMessage(q, ev.text)
             ELSE UNCHANGED currentStreamingMessage
        /\ UNCHANGED <<messages, isStreaming>>

\* onmessage, data.agent
OnAgent(q, ev) ==
    LET shown == ev.status = "done" /\ ev.text # ""
    IN  /\ es' = [es EXCEPT ![q].fullResponse = IF shown THEN ev.text ELSE @,
                            ![q].agentSteps = Append(@, AgentStep(ev))]
        /\ IF shown
             THEN SetCurrentStreamingMessage(q, ev.text)
             ELSE UNCHANGED currentStreamingMessage
        /\ UNCHANGED <<messages, isStreaming>>

\* data.query_id || `q_${Date.now()}`
FinalQueryId(ev) ==
    IF ev.query_id # NoQueryId THEN ev.query_id ELSE ClientQId(now)

\* The final branch marking every answer verified, as the welcome message is.
OnFinalAlwaysSafe(q, ev) ==
    /\ messages' = AddMessage(messages,
                       AiMessage(FinalQueryId(ev), ev.final, es[q].agentSteps, TRUE))
    /\ SetCurrentStreamingMessage(q, "")
    /\ SetIsStreaming(q, FALSE)
    /\ es' = [es EXCEPT ![q] = EsClose([@ EXCEPT !.fullResponse = ev.final,
                                                 !.appended = @ + 1])]

\* The final branch that does not attach the steps.
OnFinalNoSteps(q, ev) ==
    /\ messages' = AddMessage(messages,
                       AiMessage(FinalQueryId(ev), ev.final, <<>>, ev.safety_verified))
    /\ SetCurrentStreamingMessage(q, "")
    /\ SetIsStreaming(q, FALSE)
    /\ es' = [es EXCEPT ![q] = EsClose([@ EXCEPT !.fullResponse = ev.final,
                                                 !.appended = @ + 1])]

\* onmessage, data.final
OnFinal(q, ev) ==
    /\ messages' = AddMessage(messages,
                       AiMessage(FinalQueryId(ev), ev.final, es[q].agentSteps,
                                 ev.safety_verified))
    /\ SetCurrentStreamingMessage(q, "")
    /\ SetIsStreaming(q, FALSE)
    /\ es' = [es EXCEPT ![q] = EsClose([@ EXCEPT !.fullResponse = ev.final,
                                                 !.appended = @ + 1])]

\* The handler without the test for the sentinel: JSON.parse('[DONE]')
\* throws, the catch logs it and nothing else happens.
OnMessageParsesSentinel(q, ev) ==
    IF ev.type = "stage" /\ ev.agent # "" THEN OnAgent(q, ev)
    ELSE IF ev.type = "final" /\ ev.final # "" THEN OnFinal(q, ev)
    ELSE UNCHANGED <<messages, isStreaming, currentStreamingMessage, es>>

\* eventSource.onmessage
OnMessage(q, ev) ==
    IF ev.type = "[DONE]" THEN OnDone(q)
    ELSE IF ev.type = "stage" /\ ev.agent # "" THEN OnAgent(q, ev)
    ELSE IF ev.type = "final" /\ ev.final # "" THEN OnFinal(q, ev)
    ELSE UNCHANGED <<messages, isStreaming, currentStreamingMessage, es>>

\* The error handler leaving the partial text on the screen.
OnErrorKeepsText(q) ==
    /\ SetIsStreaming(q, FALSE)
    /\ es' = [es EXCEPT ![q] = EsClose(@)]
    /\ UNCHANGED <<messages, currentStreamingMessage>>

\* The error handler without its eventSource.close().
OnErrorNoClose(q) ==
    /\ SetIsStreaming(q, FALSE)
    /\ SetCurrentStreamingMessage(q, "")
    /\ UNCHANGED <<messages, es>>

\* eventSource.onerror
OnError(q) ==
    /\ SetIsStreaming(q, FALSE)
    /\ SetCurrentStreamingMessage(q, "")
    /\ es' = [es EXCEPT ![q] = EsClose(@)]
    /\ UNCHANGED messages

(***************************************************************************)
(* The transport: the pipeline's events reach the EventSource in emission  *)
(* order, each at most once; an EventSource that is not OPEN dispatches    *)
(* nothing, and what the pipeline produces for it is dropped.              *)
(***************************************************************************)
Send(q, ev) ==
    /\ emitted' = [emitted EXCEPT ![q] = Append(@, ev)]
    /\ IF es[q].readyState = "OPEN"
         THEN /\ delivered' = [delivered EXCEPT ![q] = Append(@, ev)]
              /\ OnMessage(q, ev)
         ELSE UNCHANGED <<delivered, messages, isStreaming, currentStreamingMessage, es>>
    /\ UNCHANGED speech

(***************************************************************************)
(* The staged response pipeline of one query (server side).                *)
(***************************************************************************)
IdleRun == [pc |-> "idle", stage |-> 0, ctx |-> "none", failed |-> 0, out |-> ""]

\* openChannel(query, sessionContext)
OpenChannel == [pc |-> "retrieve", stage |-> 0, ctx |-> "none", failed |-> 0, out |-> ""]

\* The pipeline observes a close at a stage boundary.
CancelObserved(q) == es[q].readyState = "CLOSED"

\* What retrieve(query, scope) can answer: ranked chunks, an empty list, or
\* the RetrievalUnavailable condition.
RetrievalResults == {"chunks", "empty", "unavailable"}

\* The context the stages get: RetrievalUnavailable counts as an empty list.
ContextOf(r) == IF r = "unavailable" THEN "empty" ELSE r

\* A pipeline that fails the whole query when retrieval is unavailable.
RetrieveFailsQuery(q) ==
    /\ srv[q].pc = "retrieve"
    /\ \E r \in RetrievalResults :
           srv' = [srv EXCEPT ![q] =
                      IF r = "unavailable"
                        THEN [@ EXCEPT !.pc = "final", !.ctx = "empty", !.failed = 1]
                        ELSE [@ EXCEPT !.pc = "start", !.stage = 1, !.ctx = r]]
    /\ now' = now + 1
    /\ UNCHANGED <<storeVars, chatVars, es, emitted, delivered, nq, nLogins, gameVars>>
    /\ UNCHANGED <<uploadVars, uiVars>>

\* The run retrieves its context and goes on to the first stage.  Serving a
\* request takes time: the clock advances.
Retrieve(q) ==
    /\ srv[q].pc = "retrieve"
    /\ \E r \in RetrievalResults :
           srv' = [srv EXCEPT ![q] = [@ EXCEPT !.pc = "start", !.stage = 1,
                                                !.ctx = ContextOf(r)]]
    /\ now' = now + 1
    /\ UNCHANGED <<storeVars, chatVars, es, emitted, delivered, nq, nLogins, gameVars>>
    /\ UNCHANGED <<uploadVars, uiVars>>

\* A pipeline that does not look for the close at the stage boundary.
StageStartUnchecked(q) ==
    /\ srv[q].pc = "start"
    /\ srv' = [srv EXCEPT ![q].pc = "run"]
    /\ Send(q, StageEvent(srv[q].stage, "thinking", ""))
    /\ UNCHANGED <<student, currentScreen, nq, nLogins, now, gameVars>>
    /\ UNCHANGED <<uploadVars, uiVars>>

\* A stage boundary: abandon the run if the close was observed, else emit
\* StageUpdate(stage, in_progress) and invoke the stage.
StageStart(q) ==
    /\ srv[q].pc = "start"
    /\ IF CancelObserved(q)
         THEN /\ srv' = [srv EXCEPT ![q].pc = "abandoned"]
              /\ UNCHANGED <<emitted, delivered, messages, chatVars, es>>
         ELSE /\ srv' = [srv EXCEPT ![q].pc = "run"]
              /\ Send(q, StageEvent(srv[q].stage, "thinking", ""))
    /\ UNCHANGED <<student, currentScreen, nq, nLogins, now, gameVars>>
    /\ UNCHANGED <<uploadVars, uiVars>>

\* The stage returns: StageUpdate(stage, done, output), then the next stage
\* or the final answer.
StageDone(q) ==
    /\ srv[q].pc = "run"
    /\ \E text \in StageOutputs(srv[q].stage) :
          /\ srv' = [srv EXCEPT ![q] =
                        IF @.stage < LastStage
                          THEN [@ EXCEPT !.pc = "start", !.stage = @ + 1, !.out = text]
                          ELSE [@ EXCEPT !.pc = "final", !.out = text]]
          /\ Send(q, StageEvent(srv[q].stage, "done", text))
    /\ UNCHANGED <<student, currentScreen, nq, nLogins, now, gameVars>>
    /\ UNCHANGED <<uploadVars, uiVars>>

\* The stage fails or times out: no further StageUpdate, the fallback final.
StageFail(q) ==
    /\ srv[q].pc = "run"
    /\ srv' = [srv EXCEPT ![q] = [@ EXCEPT !.pc = "final", !.failed = srv[q].stage]]
    /\ UNCHANGED <<storeVars, chatVars, es, emitted, delivered, nq, nLogins, now, gameVars>>
    /\ UNCHANGED <<uploadVars, uiVars>>

\* The FinalAnswer: stage 3's output and the safety classifier's verdict, or
\* the fallback message with the flag false.
EmitFinal(q) ==
    /\ srv[q].pc = "final"
    /\ srv' = [srv EXCEPT ![q].pc = "sentinel"]
    /\ \E qid \in {ServerQId(q), NoQueryId} :
          IF srv[q].failed # 0
            THEN Send(q, FinalEvent(FallbackText, qid, FALSE))
            ELSE \E safe \in BOOLEAN : Send(q, FinalEvent(srv[q].out, qid, safe))
    /\ UNCHANGED <<student, currentScreen, nq, nLogins, now, gameVars>>
    /\ UNCHANGED <<uploadVars, uiVars>>

\* The end-of-stream sentinel.
EmitSentinel(q) ==
    /\ srv[q].pc = "sentinel"
    /\ srv' = [srv EXCEPT ![q].pc = "ended"]
    /\ Send(q, Sentinel)
    /\ UNCHANGED <<student, currentScreen, nq, nLogins, now, gameVars>>
    /\ UNCHANGED <<uploadVars, uiVars>>

\* The connection drops: the EventSource fires onerror, and unless the
\* handler closed it, it reconnects: the same request again, a new run.
TransportDrop(q) ==
    /\ es[q].readyState = "OPEN"
    /\ OnError(q)
    /\ UNCHANGED speech
    /\ srv' = IF es'[q].readyState = "OPEN" THEN [srv EXCEPT ![q] = OpenChannel] ELSE srv
    /\ UNCHANGED <<student, currentScreen, emitted, delivered, nq, nLogins, now, gameVars>>
    /\ UNCHANGED <<uploadVars, uiVars>>

(***************************************************************************)
(* The upload screen: its state.                                           *)
(***************************************************************************)
MaxFileSize == 50 * 1024 * 1024
\* file.size > 50 * 1024 * 1024

\* The files offered: of two types, at the limit of the size and past it.
Files == [type : {"application/pdf", "image/png"},
          size : {MaxFileSize, MaxFileSize + 1}]

Uploads == 1..MaxUploads

\* One call of handleFileUpload that got past its checks: where it stands,
\* the file it sends, whether its interval still ticks, and whether the
\* UploadScreen instance that made it is still mounted.
NoRequest ==
    [pc |-> "none", file |-> [type |-> "", size |-> 0], student_id |-> 0,
     interval |-> FALSE, live |-> FALSE]

\* UploadScreen before it is mounted
NoUpload == [mounted |-> FALSE, uploadComplete |-> FALSE,
             reqs |-> [u \in Uploads |-> NoRequest]]

\* UploadScreen mounts: initial useState values.
MountUpload(up) == [up EXCEPT !.mounted = TRUE, !.uploadComplete = FALSE]

\* UploadScreen unmounts: its local state is gone; the calls it made go on.
UnmountUpload(up) ==
    [up EXCEPT !.mounted = FALSE, !.uploadComplete = FALSE,
               !.reqs = [u \in Uploads |-> [up.reqs[u] EXCEPT !.live = FALSE]]]

\* The interval's updater: prev >= 90 ? 90 : prev + 5
ProgressStep(prev) == IF prev >= 90 THEN 90 ELSE prev + 5

(***************************************************************************)
(* The game screen and the game results it submits.                        *)
(***************************************************************************)
Rounds == 3
\* "3 rounds total": onComplete after the answer given with challengeCount = 2

DefaultXp == 15
\* response.xp_earned || 15, and the 15 of the catch branch

XpEarned == {0, 10}
\* what the server may award for one result

Submissions == 1..MaxSubmits

\* GameScreen's useState, before the first mount.
NoGame ==
    [mounted |-> FALSE, inst |-> 0, currentChallenge |-> <<>>, challengeCount |-> 0,
     isGenerating |-> FALSE, feedback |-> "none"]

\* GameScreen mounts: initial useState values, and the effect on
\* [challengeCount] calls fetchNewChallenge, which sets isGenerating.
MountGame(g) ==
    [mounted |-> TRUE, inst |-> g.inst + 1, currentChallenge |-> <<>>,
     challengeCount |-> 0, isGenerating |-> TRUE, feedback |-> "none"]

\* GameScreen unmounts: its local state is gone.
UnmountGame(g) == [NoGame EXCEPT !.inst = g.inst]

NoSub ==
    [pc |-> "none", inst |-> 0, count |-> 0, cap |-> 0, earned |-> 0, applied |-> FALSE,
     amount |-> 0, epoch |-> 0, concurrent |-> FALSE, student_id |-> 0,
     challenge |-> <<0, 0>>]

InFlight(s) == subs[s].pc \in {"sent", "served"}
Handled(s) == subs[s].pc \in {"timer", "done"} /\ subs[s].epoch # 0

\* A call made by the instance that is mounted now; the setState calls of any
\* other have no effect.
Live(s) == game.mounted /\ subs[s].inst = game.inst

\* The store's profile of the student who logs in.
LoginProfile(sid) == [student_id |-> sid, xp |-> store[sid].xp]

\* The store records one result: serialized per student, the XP added and
\* the result counted in one step.
RecordResult(st, earned) == [xp |-> st.xp + earned, results |-> st.results + 1]

\* addXp without the spread of state.student.
AddXpDropsProfile(state, amount) ==
    IF state # <<>> THEN <<[xp |-> state[1].xp + amount]>> ELSE <<>>

\* useAppStore.addXp: set((state) => ...), on the store's current state
AddXp(state, amount) ==
    IF state # <<>> THEN <<[state[1] EXCEPT !.xp = @ + amount]>> ELSE <<>>

\* response.xp_earned || 15
XpOf(earned) == IF earned # 0 THEN earned ELSE DefaultXp

\* The texts of the options, and the ordered option lists of at most two.
OptionTexts == {"a", "b"}
OptionLists == {<<>>} \cup {<<x>> : x \in OptionTexts}
                      \cup {<<x, y>> : x, y \in OptionTexts}

Range(f) == {f[i] : i \in DOMAIN f}

\* A generator that guarantees nothing of what it returns.
GenerateUnchecked ==
    {[options |-> o, correct |-> c] : o \in OptionLists, c \in OptionTexts}

\* generate(studentId, subject, grade, type): the options are non-empty and
\* without duplicates, and the correct option is one of them.
Generate ==
    {ch \in [options : OptionLists, correct : OptionTexts] :
        /\ Len(ch.options) > 0
        /\ Cardinality(Range(ch.options)) = Len(ch.options)
        /\ ch.correct \in Range(ch.options)}

\* const types = ['iq', 'eq', 'concept']; const type = types[challengeCount % 3]
ChallengeType(challengeCount) == <<"iq", "eq", "concept">>[(challengeCount % 3) + 1]

\* The challenge object the response carries, of the type the request named.  The effect on
\* [challengeCount] runs once for each value of it in one instance, so the
\* instance and the count name the response.
Fetched(ch) ==
    [id |-> <<game.inst, game.challengeCount>>, options |-> ch.options,
     correct |-> ch.correct, type |-> ChallengeType(game.challengeCount)]

\* fetchNewChallenge returns, with a challenge or without.
FetchResolved ==
    /\ game.mounted /\ game.isGenerating
    /\ \/ \E ch \in Generate :
             game' = [game EXCEPT !.isGenerating = FALSE,
                                  !.currentChallenge = <<Fetched(ch)>>]
       \/ game' = [game EXCEPT !.isGenerating = FALSE]
    /\ UNCHANGED <<storeVars, chatVars, streamVars, nLogins, now, subs, store, loginXp>>
    /\ UNCHANGED <<uploadVars, uiVars>>

\* selectedOption === currentChallenge.correct
IsCorrect(selectedOption, challenge) == selectedOption = challenge.correct

\* A guard that looks at the challenge only.
RejectsWithoutChallenge == game.currentChallenge = <<>>

\* if (!currentChallenge || feedback) return
Rejects == game.currentChallenge = <<>> \/ game.feedback # "none"

\* GameScreen.handleAnswer up to its await: the button of an option of the
\* challenge shown is clicked; the screen renders the buttons of a loaded
\* challenge while none is being generated.  Called with no challenge
\* loaded, the handler returns.
HandleAnswer(selectedOption) ==
    /\ currentScreen = "game"
    /\ game.mounted
    /\ game.currentChallenge # <<>> =>
          /\ ~game.isGenerating
          /\ selectedOption \in Range(game.currentChallenge[1].options)
    /\ IF Rejects
         THEN UNCHANGED vars
         ELSE IF IsCorrect(selectedOption, game.currentChallenge[1])
           THEN /\ \E s \in Submissions :
                     /\ subs[s].pc = "none"
                     /\ \A t \in Submissions : t < s => subs[t].pc # "none"
                     /\ subs' = [subs EXCEPT ![s] =
                            [NoSub EXCEPT
                               !.pc = IF student # <<>> THEN "sent" ELSE "timer",
                               !.inst = game.inst,
                               !.count = game.challengeCount,
                               !.challenge = game.currentChallenge[1].id,
                               !.cap = IF student # <<>> THEN student[1].xp ELSE 0,
                               !.student_id = IF student # <<>>
                                                THEN student[1].student_id ELSE 0,
                               !.concurrent = \E t \in Submissions : InFlight(t)]]
                /\ game' = [game EXCEPT !.feedback = "correct"]
                /\ UNCHANGED <<storeVars, chatVars, streamVars, nLogins, now, store, loginXp>>
           ELSE /\ game' = [game EXCEPT !.feedback = "wrong"]
                /\ UNCHANGED <<storeVars, chatVars, streamVars, nLogins, now, subs, store, loginXp>>
    /\ UNCHANGED <<uploadVars, uiVars>>

\* setTimeout(() => setFeedback(null), 1000)
WrongTimer ==
    /\ game.mounted /\ game.feedback = "wrong"
    /\ game' = [game EXCEPT !.feedback = "none"]
    /\ UNCHANGED <<storeVars, chatVars, streamVars, nLogins, now, subs, store, loginXp>>
    /\ UNCHANGED <<uploadVars, uiVars>>

\* POST /api/profile/games/submit is served: the store records the result.
SubmitServed(s) ==
    /\ subs[s].pc = "sent"
    /\ \E earned \in XpEarned :
          /\ store' = [store EXCEPT ![subs[s].student_id] = RecordResult(@, earned)]
          /\ subs' = [subs EXCEPT ![s] = [@ EXCEPT !.pc = "served", !.earned = earned,
                                                   !.applied = TRUE]]
    /\ UNCHANGED <<storeVars, chatVars, streamVars, nLogins, now, game, loginXp>>
    /\ UNCHANGED <<uploadVars, uiVars>>

\* The handler with the XP computed from the student its render captured.
SubmitResolvedStale(s) ==
    /\ subs[s].pc = "served"
    /\ student' = IF student # <<>>
                    THEN <<[student[1] EXCEPT !.xp = subs[s].cap + XpOf(subs[s].earned)]>>
                    ELSE <<>>
    /\ subs' = [subs EXCEPT ![s] = [@ EXCEPT !.pc = "timer",
                                             !.amount = XpOf(subs[s].earned),
                                             !.epoch = nLogins]]
    /\ UNCHANGED <<messages, currentScreen, chatVars, streamVars, nLogins, now,
                   game, store, loginXp>>
    /\ UNCHANGED <<uploadVars, uiVars>>

\* handleAnswer after its await: addXp(response.xp_earned || 15), and the
\* timer is set.
SubmitResolved(s) ==
    /\ subs[s].pc = "served"
    /\ student' = AddXp(student, XpOf(subs[s].earned))
    /\ subs' = [subs EXCEPT ![s] = [@ EXCEPT !.pc = "timer",
                                             !.amount = XpOf(subs[s].earned),
                                             !.epoch = nLogins]]
    /\ UNCHANGED <<messages, currentScreen, chatVars, streamVars, nLogins, now,
                   game, store, loginXp>>
    /\ UNCHANGED <<uploadVars, uiVars>>

\* handleAnswer's catch: the request or its response is lost; addXp(15).
SubmitFailed(s) ==
    /\ InFlight(s)
    /\ student' = AddXp(student, DefaultXp)
    /\ subs' = [subs EXCEPT ![s] = [@ EXCEPT !.pc = "timer", !.amount = DefaultXp,
                                             !.epoch = nLogins]]
    /\ UNCHANGED <<messages, currentScreen, chatVars, streamVars, nLogins, now,
                   game, store, loginXp>>
    /\ UNCHANGED <<uploadVars, uiVars>>

\* setTimeout(..., 1500): setFeedback(null), then the next round or
\* onComplete, by the challengeCount the call captured.  onComplete is
\* App's () => setCurrentScreen('upload'), whoever calls it.
AnswerTimer(s) ==
    /\ subs[s].pc = "timer"
    /\ subs' = [subs EXCEPT ![s].pc = "done"]
    /\ IF subs[s].count < Rounds - 1
         THEN /\ game' = IF Live(s)
                           THEN [game EXCEPT !.feedback = "none",
                                             !.challengeCount = @ + 1,
                                             !.isGenerating = TRUE]
                           ELSE game
              /\ UNCHANGED currentScreen
         ELSE /\ currentScreen' = "upload"
              /\ game' = IF game.mounted THEN UnmountGame(game) ELSE game
    /\ upload' = IF currentScreen' = "upload" /\ currentScreen # "upload"
                   THEN MountUpload(upload) ELSE upload
    /\ UNCHANGED <<student, messages, chatVars, streamVars, nLogins, now, store, loginXp>>
    /\ UNCHANGED <<isUploading, uploadProgress, uiVars>>

\* UploadScreen: onBack
UploadBack ==
    /\ currentScreen = "upload"
    /\ currentScreen' = "game"
    /\ game' = MountGame(game)
    /\ upload' = UnmountUpload(upload)
    /\ UNCHANGED <<student, messages, chatVars, streamVars, nLogins, now, subs, store, loginXp>>
    /\ UNCHANGED <<isUploading, uploadProgress, uiVars>>

(***************************************************************************)
(* Reading a message aloud: the state of ChatScreen.handleSpeak.           *)
(***************************************************************************)
Speaks == 1..MaxSpeaks

\* speakingMessageId null, audioRef.current null (0), and no call made.  A
\* call holds the message it reads, where it stands (its fetch pending, its
\* Audio playing, paused or ended, or failed), and whether the ChatScreen
\* instance that made it is still mounted.
NoSpeech ==
    [speakingMessageId |-> <<>>, audioRef |-> 0,
     calls |-> [c \in Speaks |-> [pc |-> "none", messageId |-> <<>>, live |-> FALSE]]]

\* audioRef.current.pause(), if there is a current audio
Pause(calls, audio) ==
    IF audio # 0 /\ calls[audio].pc = "playing"
      THEN [calls EXCEPT ![audio].pc = "paused"]
      ELSE calls

(***************************************************************************)
(* The screens.                                                            *)
(***************************************************************************)
\* WelcomeScreen.handleStart, api.login succeeding: setStudent, onStart.
HandleStart(sid) ==
    /\ currentScreen = "welcome"
    /\ nLogins < MaxLogins
    /\ nLogins' = nLogins + 1
    /\ student' = <<LoginProfile(sid)>>
    /\ loginXp' = LoginProfile(sid).xp
    /\ currentScreen' = "game"
    /\ game' = MountGame(game)
    /\ UNCHANGED <<messages, chatVars, streamVars, now, subs, store>>
    /\ UNCHANGED <<uploadVars, uiVars>>

\* GameScreen: onBack
GameBack ==
    /\ currentScreen = "game"
    /\ currentScreen' = "welcome"
    /\ game' = UnmountGame(game)
    /\ UNCHANGED <<student, messages, chatVars, streamVars, nLogins, now, subs, store, loginXp>>
    /\ UNCHANGED <<uploadVars, uiVars>>

\* ChatScreen mounts: fresh local state, and the welcome message if the
\* transcript is empty.
MountChat ==
    /\ isStreaming' = FALSE
    /\ currentStreamingMessage' = ""
    /\ speech' = [speech EXCEPT !.speakingMessageId = <<>>, !.audioRef = 0]
    /\ messages' = IF Len(messages) = 0
                     THEN AddMessage(messages, WelcomeMessage(now))
                     ELSE messages

\* ChatScreen unmounts: its local state is gone; the EventSources it opened
\* stay as they are.
UnmountChat ==
    /\ isStreaming' = FALSE
    /\ currentStreamingMessage' = ""
    /\ speech' = [speech EXCEPT !.speakingMessageId = <<>>, !.audioRef = 0,
                                !.calls = [c \in Speaks |-> [@[c] EXCEPT !.live = FALSE]]]
    /\ es' = [q \in Queries |-> [es[q] EXCEPT !.alive = FALSE]]

\* WelcomeScreen: "Already logged in? Go to Chat"
GoToChat ==
    /\ currentScreen = "welcome"
    /\ student # <<>>
    /\ currentScreen' = "chat"
    /\ MountChat
    /\ UNCHANGED <<student, streamVars, nLogins, now, gameVars>>
    /\ UNCHANGED <<uploadVars, uiVars>>

\* ChatScreen: "Logout / Home"
LogoutHome ==
    /\ currentScreen = "chat"
    /\ currentScreen' = "welcome"
    /\ UnmountChat
    /\ UNCHANGED <<student, messages, srv, emitted, delivered, nq, nLogins, now, gameVars>>
    /\ UNCHANGED <<uploadVars, uiVars>>

\* The guard without the trim: if (!inputValue || !student || isStreaming)
CanSendUntrimmed(text) == text # <<>> /\ student # <<>> /\ ~isStreaming

\* handleSend's guard: if (!inputValue.trim() || !student || isStreaming) return
CanSend(text) == Trim(text) # <<>> /\ student # <<>> /\ ~isStreaming

\* ChatScreen.handleSend, with text in the input.  Typing and sending take
\* time: the clock advances.
HandleSend(text) ==
    /\ currentScreen = "chat"
    /\ nq < MaxQueries
    /\ IF CanSend(text)
         THEN LET q == nq + 1
                  query == Trim(text)
              IN  /\ messages' = AddMessage(messages, UserMessage(UserId(now), query))
                  /\ isStreaming' = TRUE
                  /\ UNCHANGED speech
                  /\ currentStreamingMessage' = ""
                  /\ es' = [es EXCEPT ![q] = CreateChatStream(query, student[1].student_id)]
                  /\ srv' = [srv EXCEPT ![q] = OpenChannel]
                  /\ nq' = q
                  /\ now' = now + 1
                  /\ UNCHANGED <<student, currentScreen, emitted, delivered, nLogins, gameVars>>
         ELSE UNCHANGED vars
    /\ UNCHANGED <<uploadVars, uiVars>>

(***************************************************************************)
(* Reading a message aloud: the handlers.                                  *)
(***************************************************************************)
\* if (speakingMessageId === messageId && audioRef.current)
StopsSpeaking(messageId) ==
    speech.speakingMessageId = <<messageId>> /\ speech.audioRef # 0

\* ChatScreen.handleSpeak up to its await: the speaker button of an AI
\* message is clicked.
HandleSpeak(messageId) ==
    /\ currentScreen = "chat"
    /\ \E i \in 1..Len(messages) : messages[i].role = "ai" /\ messages[i].id = messageId
    /\ IF StopsSpeaking(messageId)
         THEN speech' = [speech EXCEPT !.calls = Pause(@, speech.audioRef),
                                       !.audioRef = 0,
                                       !.speakingMessageId = <<>>]
         ELSE \E c \in Speaks :
                 /\ speech.calls[c].pc = "none"
                 /\ \A d \in Speaks : d < c => speech.calls[d].pc # "none"
                 /\ speech' = [speech EXCEPT
                       !.calls = [Pause(@, speech.audioRef) EXCEPT
                                     ![c] = [pc |-> "fetch", messageId |-> <<messageId>>,
                                             live |-> TRUE]],
                       !.audioRef = 0,
                       !.speakingMessageId = <<messageId>>]
    /\ UNCHANGED <<storeVars, isStreaming, currentStreamingMessage, streamVars,
                   nLogins, now, gameVars, uploadVars, uiVars>>

\* The fetch of /api/tts/speak resolves with the audio: new Audio(url),
\* audioRef.current = audio, audio.play().  The ref is the one of the
\* instance that made the call.
SpeakFetched(c) ==
    /\ speech.calls[c].pc = "fetch"
    /\ speech' = [speech EXCEPT !.calls[c].pc = "playing",
                                !.audioRef = IF speech.calls[c].live THEN c ELSE @]
    /\ UNCHANGED <<storeVars, isStreaming, currentStreamingMessage, streamVars,
                   nLogins, now, gameVars, uploadVars, uiVars>>

\* The fetch fails or answers !res.ok: the catch, setSpeakingMessageId(null).
SpeakFailed(c) ==
    /\ speech.calls[c].pc = "fetch"
    /\ speech' = [speech EXCEPT !.calls[c].pc = "failed",
                                !.speakingMessageId =
                                    IF speech.calls[c].live THEN <<>> ELSE @]
    /\ UNCHANGED <<storeVars, isStreaming, currentStreamingMessage, streamVars,
                   nLogins, now, gameVars, uploadVars, uiVars>>

\* audio.onended (audio.onerror sets the same state):
\* setSpeakingMessageId(null), audioRef.current = null.
AudioEnded(c) ==
    /\ speech.calls[c].pc = "playing"
    /\ speech' = [speech EXCEPT !.calls[c].pc = "ended",
                                !.speakingMessageId =
                                    IF speech.calls[c].live THEN <<>> ELSE @,
                                !.audioRef = IF speech.calls[c].live THEN 0 ELSE @]
    /\ UNCHANGED <<storeVars, isStreaming, currentStreamingMessage, streamVars,
                   nLogins, now, gameVars, uploadVars, uiVars>>

(***************************************************************************)
(* The upload screen: its handlers.                                        *)
(***************************************************************************)
\* The checks without the one of the type.
PassesChecksAnyType(file) == student # <<>> /\ ~(file.size > MaxFileSize)

\* The three early returns of handleFileUpload, none taken.
PassesChecks(file) ==
    /\ ~(student = <<>>)
    /\ ~(file.type # "application/pdf")
    /\ ~(file.size > MaxFileSize)

\* UploadScreen.handleFileUpload up to its await, for a file dropped on the
\* zone (handleDrop) or chosen in the dialog (handleFileSelect), which the
\* zone opens only while !isUploading.
HandleFileUpload(file, dropped) ==
    /\ currentScreen = "upload" /\ upload.mounted
    /\ dropped \/ ~isUploading
    /\ IF PassesChecks(file)
         THEN /\ \E u \in Uploads :
                   /\ upload.reqs[u].pc = "none"
                   /\ \A v \in Uploads : v < u => upload.reqs[v].pc # "none"
                   /\ upload' = [upload EXCEPT !.reqs[u] =
                          [pc |-> "sent", file |-> file,
                           student_id |-> student[1].student_id,
                           interval |-> TRUE, live |-> TRUE]]
              /\ isUploading' = TRUE
              /\ uploadProgress' = 0
         ELSE UNCHANGED uploadVars
    /\ UNCHANGED <<storeVars, chatVars, streamVars, nLogins, now, gameVars, uiVars>>

\* The interval of a call fires: setUploadProgress(prev => ...), the
\* interval cleared once prev >= 90.
ProgressTick(u) ==
    /\ upload.reqs[u].interval
    /\ uploadProgress' = ProgressStep(uploadProgress)
    /\ upload' = [upload EXCEPT !.reqs[u].interval = ~(uploadProgress >= 90)]
    /\ UNCHANGED <<storeVars, chatVars, streamVars, nLogins, now, gameVars,
                   isUploading, uiVars>>

\* api.uploadTextbook resolves: the interval is cleared, the progress set to
\* 100, and the timer of onComplete set.
UploadResolved(u) ==
    /\ upload.reqs[u].pc = "sent"
    /\ uploadProgress' = 100
    /\ upload' = [upload EXCEPT !.reqs[u].pc = "timer",
                                !.reqs[u].interval = FALSE,
                                !.uploadComplete = upload.reqs[u].live \/ @]
    /\ UNCHANGED <<storeVars, chatVars, streamVars, nLogins, now, gameVars,
                   isUploading, uiVars>>

\* api.uploadTextbook throws: the catch resets the progress and isUploading;
\* the interval, declared inside the try, is not cleared.
UploadFailed(u) ==
    /\ upload.reqs[u].pc = "sent"
    /\ uploadProgress' = 0
    /\ isUploading' = FALSE
    /\ upload' = [upload EXCEPT !.reqs[u].pc = "failed"]
    /\ UNCHANGED <<storeVars, chatVars, streamVars, nLogins, now, gameVars, uiVars>>

\* setTimeout(() => onComplete(), 2000): App's setCurrentScreen('chat'),
\* whichever screen is shown by then.
UploadTimer(u) ==
    /\ upload.reqs[u].pc = "timer"
    /\ currentScreen' = "chat"
    /\ upload' = LET up == [upload EXCEPT !.reqs[u].pc = "done"]
                 IN  IF currentScreen = "upload" THEN UnmountUpload(up) ELSE up
    /\ game' = IF currentScreen = "game" THEN UnmountGame(game) ELSE game
    /\ IF currentScreen = "chat"
         THEN UNCHANGED <<messages, chatVars>>
         ELSE MountChat
    /\ UNCHANGED <<student, streamVars, nLogins, now, subs, store, loginXp,
                   isUploading, uploadProgress, uiVars>>

(***************************************************************************)
(* The operations of useAppStore, each callable on its own.                *)
(***************************************************************************)
MaxTranscript == 2
MaxXp == 25

\* !msg.thoughtExpanded: an absent field reads as undefined
Expanded(msg) == "thoughtExpanded" \in DOMAIN msg /\ msg.thoughtExpanded

\* { ...msg, thoughtExpanded: !msg.thoughtExpanded }
Toggled(msg) ==
    [f \in DOMAIN msg \cup {"thoughtExpanded"} |->
        IF f = "thoughtExpanded" THEN ~Expanded(msg) ELSE msg[f]]

\* useAppStore.toggleThought: state.messages.map(...)
ToggleThought(msgs, messageId) ==
    [i \in 1..Len(msgs) |->
        IF msgs[i].id = messageId THEN Toggled(msgs[i]) ELSE msgs[i]]

\* The messages and the amounts the operations are called with.
CallMessages ==
    {UserMessage(UserId(1), "q"), AiMessage(ClientQId(1), "a", <<>>, TRUE)}
XpAmounts == {XpOf(earned) : earned \in XpEarned}

CallSetStudent(profile) ==
    /\ student' = <<profile>>
    /\ UNCHANGED <<messages, currentScreen, chatVars, streamVars, nLogins, now,
                   gameVars, uploadVars, uiVars>>

CallAddMessage(message) ==
    /\ Len(messages) < MaxTranscript
    /\ messages' = AddMessage(messages, message)
    /\ UNCHANGED <<student, currentScreen, chatVars, streamVars, nLogins, now,
                   gameVars, uploadVars, uiVars>>

\* set({ messages: [] })
CallClearMessages ==
    /\ messages' = <<>>
    /\ UNCHANGED <<student, currentScreen, chatVars, streamVars, nLogins, now,
                   gameVars, uploadVars, uiVars>>

CallToggleThought(messageId) ==
    /\ messages' = ToggleThought(messages, messageId)
    /\ UNCHANGED <<student, currentScreen, chatVars, streamVars, nLogins, now,
                   gameVars, uploadVars, uiVars>>

CallSetIsLoading(loading) ==
    /\ isLoading' = loading
    /\ UNCHANGED <<storeVars, chatVars, streamVars, nLogins, now, gameVars,
                   uploadVars, theme>>

CallSetCurrentScreen(screen) ==
    /\ currentScreen' = screen
    /\ UNCHANGED <<student, messages, chatVars, streamVars, nLogins, now,
                   gameVars, uploadVars, uiVars>>

CallSetIsUploading(uploading) ==
    /\ isUploading' = uploading
    /\ UNCHANGED <<storeVars, chatVars, streamVars, nLogins, now, gameVars,
                   uploadProgress, upload, uiVars>>

\* setUploadProgress with a number
CallSetUploadProgress(progress) ==
    /\ uploadProgress' = progress
    /\ UNCHANGED <<storeVars, chatVars, streamVars, nLogins, now, gameVars,
                   isUploading, upload, uiVars>>

\* setUploadProgress with a function of the previous value
CallSetUploadProgressFn ==
    /\ uploadProgress' = ProgressStep(uploadProgress)
    /\ UNCHANGED <<storeVars, chatVars, streamVars, nLogins, now, gameVars,
                   isUploading, upload, uiVars>>

CallAddXp(amount) ==
    /\ student # <<>> => student[1].xp + amount <= MaxXp
    /\ student' = AddXp(student, amount)
    /\ UNCHANGED <<messages, currentScreen, chatVars, streamVars, nLogins, now,
                   gameVars, uploadVars, uiVars>>

CallToggleTheme ==
    /\ theme' = IF theme = "dark" THEN "light" ELSE "dark"
    /\ UNCHANGED <<storeVars, chatVars, streamVars, nLogins, now, gameVars,
                   uploadVars, isLoading>>

\* useAppStore.reset: everything but the theme
CallReset ==
    /\ student' = <<>>
    /\ messages' = <<>>
    /\ isLoading' = FALSE
    /\ currentScreen' = "welcome"
    /\ isUploading' = FALSE
    /\ uploadProgress' = 0
    /\ UNCHANGED <<chatVars, streamVars, nLogins, now, gameVars, upload, theme>>

(***************************************************************************)
(* The specification.                                                      *)
(***************************************************************************)
Init ==
    /\ student = <<>>
    /\ messages = <<>>
    /\ currentScreen = "welcome"
    /\ isStreaming = FALSE
    /\ currentStreamingMessage = ""
    /\ es = [q \in Queries |-> NoSource]
    /\ srv = [q \in Queries |-> IdleRun]
    /\ emitted = [q \in Queries |-> <<>>]
    /\ delivered = [q \in Queries |-> <<>>]
    /\ nq = 0
    /\ nLogins = 0
    /\ now = 0
    /\ game = NoGame
    /\ subs = [s \in Submissions |-> NoSub]
    /\ store = [sid \in Students |-> [xp |-> 0, results |-> 0]]
    /\ loginXp = 0
    /\ isUploading = FALSE
    /\ uploadProgress = 0
    /\ upload = NoUpload
    /\ isLoading = FALSE
    /\ theme = "dark"
    /\ speech = NoSpeech

Pipeline(q) ==
    \/ Retrieve(q)
    \/ StageStart(q)
    \/ StageDone(q)
    \/ StageFail(q)
    \/ EmitFinal(q)
    \/ EmitSentinel(q)

Next ==
    \/ HandleStart(1)
    \/ GameBack
    \/ GoToChat
    \/ LogoutHome
    \/ \E text \in Inputs : HandleSend(text)
    \/ \E q \in Queries : Pipeline(q)
    \/ \E q \in Queries : TransportDrop(q)

Spec == Init /\ [][Next]_vars

\* The game: login, the rounds, the results submitted.
NextGame ==
    \/ HandleStart(1)
    \/ GameBack
    \/ FetchResolved
    \/ \E selectedOption \in OptionTexts : HandleAnswer(selectedOption)
    \/ WrongTimer
    \/ \E s \in Submissions : SubmitServed(s)
    \/ \E s \in Submissions : SubmitResolved(s)
    \/ \E s \in Submissions : SubmitFailed(s)
    \/ \E s \in Submissions : AnswerTimer(s)
    \/ UploadBack

SpecGame == Init /\ [][NextGame]_vars

\* The store alone: any sequence of its operations.
NextStore ==
    \/ CallSetStudent(LoginProfile(1))
    \/ \E message \in CallMessages : CallAddMessage(message)
    \/ CallClearMessages
    \/ \E messageId \in {UserId(1), ClientQId(1)} : CallToggleThought(messageId)
    \/ \E loading \in BOOLEAN : CallSetIsLoading(loading)
    \/ \E screen \in {"welcome", "game", "upload", "chat"} : CallSetCurrentScreen(screen)
    \/ \E uploading \in BOOLEAN : CallSetIsUploading(uploading)
    \/ \E progress \in {0, 100} : CallSetUploadProgress(progress)
    \/ CallSetUploadProgressFn
    \/ \E amount \in XpAmounts : CallAddXp(amount)
    \/ CallToggleTheme
    \/ CallReset

SpecStore == Init /\ [][NextStore]_vars

\* The state create() starts from.
InitialState ==
    [student |-> <<>>, messages |-> <<>>, isLoading |-> FALSE,
     currentScreen |-> "welcome", isUploading |-> FALSE, uploadProgress |-> 0,
     theme |-> "dark"]

\* A partialize that leaves the theme out.
PartializeNoTheme(state) ==
    [student |-> state.student, currentScreen |-> state.currentScreen]

\* persist's partialize: what is written to 'vidyasetu-storage' at each set
Partialize(state) ==
    [student |-> state.student, theme |-> state.theme,
     currentScreen |-> state.currentScreen]

\* The page is loaded again: the store is created from its initial state
\* and persist merges into it what the storage holds.
Rehydration ==
    LET state == [student |-> student, messages |-> messages,
                  isLoading |-> isLoading, currentScreen |-> currentScreen,
                  isUploading |-> isUploading, uploadProgress |-> uploadProgress,
                  theme |-> theme]
        persisted == Partialize(state)
        merged == [f \in DOMAIN InitialState |->
                     IF f \in DOMAIN persisted THEN persisted[f] ELSE InitialState[f]]
    IN  /\ student' = merged.student
        /\ messages' = merged.messages
        /\ isLoading' = merged.isLoading
        /\ currentScreen' = merged.currentScreen
        /\ isUploading' = merged.isUploading
        /\ uploadProgress' = merged.uploadProgress
        /\ theme' = merged.theme
        /\ UNCHANGED <<chatVars, streamVars, nLogins, now, gameVars, upload>>

\* The chat screen and its speaker buttons.
NextSpeak ==
    \/ HandleStart(1)
    \/ GameBack
    \/ GoToChat
    \/ LogoutHome
    \/ \E i \in 1..Len(messages) : HandleSpeak(messages[i].id)
    \/ \E c \in Speaks : SpeakFetched(c)
    \/ \E c \in Speaks : SpeakFailed(c)
    \/ \E c \in Speaks : AudioEnded(c)

SpecSpeak == Init /\ [][NextSpeak]_vars

\* The store's operations and the page loaded again between them.
SpecPersist == Init /\ [][NextStore \/ Rehydration]_vars

\* The page loaded with the storage an earlier visit left on the upload
\* screen: persist's partialize keeps student, theme and currentScreen, and
\* everything else starts from its initial value.
InitUpload ==
    /\ \E sid \in Students : student = <<[student_id |-> sid, xp |-> Rounds * DefaultXp]>>
    /\ messages = <<>>
    /\ currentScreen = "upload"
    /\ isStreaming = FALSE
    /\ currentStreamingMessage = ""
    /\ es = [q \in Queries |-> NoSource]
    /\ srv = [q \in Queries |-> IdleRun]
    /\ emitted = [q \in Queries |-> <<>>]
    /\ delivered = [q \in Queries |-> <<>>]
    /\ nq = 0
    /\ nLogins = 0
    /\ now = 0
    /\ game = NoGame
    /\ subs = [s \in Submissions |-> NoSub]
    /\ store = [sid \in Students |-> [xp |-> 0, results |-> 0]]
    /\ loginXp = 0
    /\ isUploading = FALSE
    /\ uploadProgress = 0
    /\ upload = MountUpload(NoUpload)
    /\ isLoading = FALSE
    /\ theme \in {"dark", "light"}
    /\ speech = NoSpeech

\* The upload screen: files offered, the requests and their timers.
NextUpload ==
    \/ \E file \in Files, dropped \in BOOLEAN : HandleFileUpload(file, dropped)
    \/ \E u \in Uploads : ProgressTick(u)
    \/ \E u \in Uploads : UploadResolved(u)
    \/ \E u \in Uploads : UploadFailed(u)
    \/ \E u \in Uploads : UploadTimer(u)
    \/ UploadBack

SpecUpload == InitUpload /\ [][NextUpload]_vars

(***************************************************************************)
(* Reading the channels.                                                   *)
(***************************************************************************)
IsPrefix(s, t) == Len(s) <= Len(t) /\ SubSeq(t, 1, Len(s)) = s

\* What an event is, without what it carries.
Tag(ev) ==
    IF ev.type = "stage" THEN <<ev.agent, ev.status>> ELSE <<ev.type>>

Tags(evs) == [i \in 1..Len(evs) |-> Tag(evs[i])]

\* Explain, Simplify, Encourage, each in_progress then done; the final; the sentinel.
FullTags ==
    <<  <<"explainer", "thinking">>,  <<"explainer", "done">>,
        <<"simplifier", "thinking">>, <<"simplifier", "done">>,
        <<"encourager", "thinking">>, <<"encourager", "done">>,
        <<"final">>, <<"[DONE]">>  >>

StageEvents(evs) == SelectSeq(evs, LAMBDA ev : ev.type = "stage")
FinalEvents(evs) == SelectSeq(evs, LAMBDA ev : ev.type = "final")

\* The records the client's handler makes of stage events.
StepsOf(evs) == [i \in 1..Len(StageEvents(evs)) |-> AgentStep(StageEvents(evs)[i])]

Opened == 1..nq

AiEntries == {i \in 1..Len(messages) : messages[i].role = "ai" /\ messages[i].id.k # ""}

(***************************************************************************)
(* C1.  A run with non-empty context in which no stage fails produces, in  *)
(* this order and with nothing in between: Explain in_progress, Explain    *)
(* done, Simplify in_progress, Simplify done, Encourage in_progress,       *)
(* Encourage done, one FinalAnswer, the sentinel.  While it runs the       *)
(* channel holds a prefix of that sequence, the in_progress of a stage is  *)
(* the last event while the stage is in flight, and the client's handler   *)
(* records one step per stage event delivered, in that order.              *)
(***************************************************************************)
C1_FixedOrder ==
    \A q \in Opened :
        (srv[q].ctx = "chunks" /\ srv[q].failed = 0) =>
            /\ IsPrefix(Tags(emitted[q]), FullTags)
            /\ srv[q].pc = "run" =>
                   emitted[q][Len(emitted[q])] = StageEvent(srv[q].stage, "thinking", "")
            /\ srv[q].pc = "final" => Len(emitted[q]) = 2 * LastStage
            /\ srv[q].pc = "ended" => Tags(emitted[q]) = FullTags
            /\ IsPrefix(delivered[q], emitted[q])
            /\ es[q].agentSteps = StepsOf(delivered[q])

C1_Witness ==
    \E q \in Opened :
        /\ srv[q].ctx = "chunks" /\ srv[q].failed = 0 /\ srv[q].pc = "ended"
        /\ Len(es[q].agentSteps) = 2 * LastStage
        /\ es[q].appended = 1

(***************************************************************************)
(* C2.  In every run, cancelled or not: the StageUpdates of a channel come *)
(* in stage order, at most one FinalAnswer is emitted, only the sentinel   *)
(* follows it, and the client appends at most one AI entry per query.      *)
(***************************************************************************)
StageIndex(agent) == CHOOSE k \in 1..LastStage : Stages[k] = agent

C2_OrderAndUniqueFinal ==
    \A q \in Opened :
        LET e == emitted[q]
        IN  /\ \A i, j \in 1..Len(e) :
                   (i < j /\ e[i].type = "stage" /\ e[j].type = "stage")
                       => StageIndex(e[i].agent) <= StageIndex(e[j].agent)
            /\ Len(FinalEvents(e)) <= 1
            /\ \A i, j \in 1..Len(e) :
                   (i < j /\ e[i].type = "final") => e[j].type = "[DONE]"
            /\ es[q].appended <= 1
            /\ es[q].appended = Len(FinalEvents(delivered[q]))
                                  - Len(SelectSeq(delivered[q],
                                           LAMBDA ev : ev.type = "final" /\ ev.final = ""))

C2_Witness ==
    \E q \in Opened :
        /\ es[q].appended = 1
        /\ srv[q].pc = "ended"
        /\ Len(FinalEvents(emitted[q])) = 1

(***************************************************************************)
(* C3.  When a stage fails, the channel ends with exactly one FinalAnswer, *)
(* which carries the fallback message and safety_verified = false, then    *)
(* the sentinel; no StageUpdate follows the in_progress of the failed      *)
(* stage; and the transcript entry the client makes of that final has the  *)
(* fallback text and the flag false.                                       *)
(***************************************************************************)
C3_FailureFallback ==
    /\ \A q \in Opened :
          srv[q].failed # 0 =>
             LET e == emitted[q]
                 k == srv[q].failed
             IN  /\ Tags(StageEvents(e)) = SubSeq(FullTags, 1, 2 * k - 1)
                 /\ IsPrefix(Tags(e), SubSeq(FullTags, 1, 2 * k - 1) \o <<  <<"final">>, <<"[DONE]">>  >>)
                 /\ srv[q].pc = "final" => Len(FinalEvents(e)) = 0
                 /\ srv[q].pc \in {"sentinel", "ended"} =>
                        /\ Len(FinalEvents(e)) = 1
                        /\ FinalEvents(e)[1].final = FallbackText
                        /\ FinalEvents(e)[1].safety_verified = FALSE
                 /\ srv[q].pc = "ended" => e[Len(e)] = Sentinel
    /\ \A i \in AiEntries :
          messages[i].content = FallbackText => messages[i].safety_verified = FALSE

C3_Witness ==
    \E q \in Opened :
        /\ srv[q].failed = 2
        /\ srv[q].pc = "ended"
        /\ es[q].appended = 1
        /\ \E i \in AiEntries : messages[i].content = FallbackText

(***************************************************************************)
(* The pipeline's steps are taken: a run that can take one eventually      *)
(* does.  Nothing is assumed of the user or of the connection.             *)
(***************************************************************************)
MaxFairQueries == 1

FairNext ==
    \/ \E sid \in Students : HandleStart(sid)
    \/ GameBack
    \/ GoToChat
    \/ LogoutHome
    \/ \E text \in Inputs : (nq < MaxFairQueries /\ HandleSend(text))
    \/ \E q \in Queries : Pipeline(q)
    \/ \E q \in Queries : TransportDrop(q)

FairSpec == Init /\ [][FairNext]_vars /\ \A q \in Queries : WF_vars(Pipeline(q))

(***************************************************************************)
(* C4.  Every channel that is opened comes to its end: its run reaches the *)
(* sentinel or is abandoned after a close, the EventSource does not stay   *)
(* open, and the isStreaming that handleSend set returns to false.         *)
(***************************************************************************)
C4_ChannelTerminates ==
    /\ \A q \in Queries :
          (srv[q].pc = "retrieve") ~> (srv[q].pc \in {"ended", "abandoned"})
    /\ \A q \in Queries :
          (es[q].readyState = "OPEN") ~> (es[q].readyState = "CLOSED")
    /\ isStreaming ~> ~isStreaming

C4_Witness ==
    \E q \in Opened :
        /\ srv[q].pc = "ended"
        /\ es[q].readyState = "CLOSED"
        /\ es[q].alive
        /\ es[q].appended = 0
        /\ ~isStreaming

(***************************************************************************)
(* C5.  Once the client has called close on a channel, nothing more of it  *)
(* reaches the client: no event is delivered, no step is recorded and no   *)
(* transcript entry is made for it, whatever the pipeline still produces.  *)
(***************************************************************************)
C5_NothingAfterClose ==
    [][\A q \in Queries :
          es[q].closeCalled =>
             /\ delivered'[q] = delivered[q]
             /\ es'[q].agentSteps = es[q].agentSteps
             /\ es'[q].appended = es[q].appended]_vars

\* Closed while Simplify was in flight: its output was produced and dropped.
C5_Witness ==
    \E q \in Opened :
        /\ es[q].closeCalled
        /\ Len(delivered[q]) = 3
        /\ Len(emitted[q]) = 4
        /\ emitted[q][4] = StageEvent(2, "done", StageText(2))
        /\ es[q].appended = 0

(***************************************************************************)
(* C6.  The pipeline starts a stage only while the channel is not closed:  *)
(* at a stage boundary with the close observed the run is abandoned, and   *)
(* an abandoned run emits nothing and starts nothing.                      *)
(***************************************************************************)
C6_NoStageAfterCancel ==
    [][\A q \in Queries :
          /\ (srv[q].pc = "start" /\ CancelObserved(q)) => srv'[q].pc \in {"start", "abandoned"}
          /\ srv[q].pc = "abandoned" =>
                 (srv'[q] = srv[q] /\ emitted'[q] = emitted[q])]_vars

\* The stage in flight at the close finished, and the next was not started.
C6_Witness ==
    \E q \in Opened :
        /\ srv[q].pc = "abandoned"
        /\ Tags(delivered[q]) = SubSeq(FullTags, 1, 3)
        /\ Tags(emitted[q]) = SubSeq(FullTags, 1, 4)

(***************************************************************************)
(* C7.  No two AI entries of the transcript that answer queries have the   *)
(* same id.                                                                *)
(***************************************************************************)
C7_DistinctQueryIds ==
    \A i, j \in AiEntries : i # j => messages[i].id # messages[j].id

(***************************************************************************)
(* C9.  A run whose retrieval gave nothing, an empty list or the           *)
(* RetrievalUnavailable condition, goes through the stages as any other:   *)
(* its events are a prefix of the full sequence and all of it at the end,  *)
(* and it gives the fallback only when one of its stages failed.           *)
(***************************************************************************)
C9_EmptyRetrievalCompletes ==
    \A q \in Opened :
        srv[q].ctx = "empty" =>
            /\ srv[q].pc \notin {"idle", "retrieve"}
            /\ srv[q].failed = 0 =>
                   /\ IsPrefix(Tags(emitted[q]), FullTags)
                   /\ srv[q].pc = "ended" => Tags(emitted[q]) = FullTags
                   /\ \A i \in 1..Len(emitted[q]) :
                          emitted[q][i].type = "final" => emitted[q][i].final # FallbackText
            /\ srv[q].failed # 0 =>
                   \E i \in 1..Len(emitted[q]) :
                       emitted[q][i] = StageEvent(srv[q].failed, "thinking", "")

C9_Witness ==
    \E q \in Opened :
        /\ srv[q].ctx = "empty" /\ srv[q].failed = 0 /\ srv[q].pc = "ended"
        /\ Tags(emitted[q]) = FullTags
        /\ es[q].appended = 1

(***************************************************************************)
(* C10.  handleSend opens a channel only for a non-empty trimmed input     *)
(* with a student present: a call with an empty or whitespace-only input,  *)
(* or without a student, changes neither the transcript nor the streaming  *)
(* state nor any channel; every channel there is carries a non-empty       *)
(* trimmed query and a student's id, and the transcript holds one user     *)
(* entry per channel.                                                      *)
(***************************************************************************)
UserEntries == {i \in 1..Len(messages) : messages[i].role = "user"}

C10_NoChannelWithoutQuery ==
    /\ [](/\ \A q \in Opened :
              /\ es[q].query # <<>>
              /\ Trim(es[q].query) = es[q].query
              /\ es[q].student_id >= 1
          /\ \A q \in Queries \ Opened : es[q] = NoSource /\ srv[q] = IdleRun
          /\ Cardinality(UserEntries) = nq
          /\ \A i \in UserEntries : messages[i].content # <<>>)
    /\ [][\A text \in Inputs :
            (HandleSend(text) /\ (Trim(text) = <<>> \/ student = <<>>))
                => UNCHANGED <<messages, isStreaming, currentStreamingMessage,
                               es, srv, nq>>]_vars

\* A channel was opened for "a", and the screen takes the next input.
C10_Witness ==
    /\ currentScreen = "chat"
    /\ nq = 1
    /\ es[1].query = <<"a">>
    /\ ~isStreaming
    /\ Cardinality(UserEntries) = 1

(***************************************************************************)
(* C8.  No game result is lost: the store holds the XP of every result it  *)
(* was given and has counted each, and the client's XP is the XP of the    *)
(* profile the last login returned plus what each call handled since has   *)
(* added, whatever the order in which concurrent calls were served and     *)
(* answered.                                                               *)
(***************************************************************************)
RECURSIVE SumEarned(_)
SumEarned(S) ==
    IF S = {} THEN 0
    ELSE LET s == CHOOSE x \in S : TRUE IN subs[s].earned + SumEarned(S \ {s})

RECURSIVE SumAmount(_)
SumAmount(S) ==
    IF S = {} THEN 0
    ELSE LET s == CHOOSE x \in S : TRUE IN subs[s].amount + SumAmount(S \ {s})

Applied == {s \in Submissions : subs[s].applied}
AppliedFor(sid) == {s \in Applied : subs[s].student_id = sid}
HandledSinceLogin == {s \in Submissions : Handled(s) /\ subs[s].epoch = nLogins}

C8_NoLostUpdate ==
    /\ \A sid \in Students :
          /\ store[sid].xp = SumEarned(AppliedFor(sid))
          /\ store[sid].results = Cardinality(AppliedFor(sid))
    /\ student # <<>> => student[1].xp = loginXp + SumAmount(HandledSinceLogin)

\* Two results in flight at once, served in the order opposite to that of
\* their submission, and both handled.
C8_Witness ==
    \E s, t \in Submissions :
        /\ s < t
        /\ subs[t].concurrent
        /\ Handled(s) /\ Handled(t)
        /\ subs[s].epoch = nLogins /\ subs[t].epoch = nLogins
        /\ subs[s].applied /\ subs[t].applied
        /\ subs[s].earned # subs[t].earned
        /\ student[1].xp = loginXp + subs[s].amount + subs[t].amount

(***************************************************************************)
(* C11.  When the connection of a channel drops, the handler closes the    *)
(* EventSource, so the request is not made again and no new run starts;    *)
(* the instance that opened the channel, if still mounted, stops streaming *)
(* and shows no partial text; and the transcript is as it was.             *)
(***************************************************************************)
C11_DropFailsQuery ==
    [][\A q \in Queries :
          TransportDrop(q) =>
             /\ es'[q].readyState = "CLOSED"
             /\ srv' = srv
             /\ messages' = messages
             /\ es'[q].appended = es[q].appended
             /\ es[q].alive => (~isStreaming' /\ currentStreamingMessage' = "")]_vars

\* Closed by the error: nothing else closes a channel that has received
\* neither a final nor the sentinel.  Explain's text had been shown.
C11_Witness ==
    \E q \in Opened :
        /\ es[q].closeCalled /\ es[q].alive
        /\ Tags(delivered[q]) = SubSeq(FullTags, 1, 2)
        /\ es[q].fullResponse = StageText(1)
        /\ es[q].appended = 0
        /\ ~isStreaming /\ currentStreamingMessage = ""
        /\ AiEntries = {}

(***************************************************************************)
(* C12.  Every final delivered on a channel has its entry in the           *)
(* transcript: an AI entry with the final's text and safety flag, and with *)
(* its query_id when it carries one; and the channel has appended as many  *)
(* entries as finals were delivered on it.                                 *)
(***************************************************************************)
C12_FinalHasEntry ==
    \A q \in Opened :
        /\ es[q].appended = Len(FinalEvents(delivered[q]))
        /\ \A i \in 1..Len(delivered[q]) :
              LET ev == delivered[q][i]
              IN  ev.type = "final" =>
                     \E j \in AiEntries :
                         /\ messages[j].content = ev.final
                         /\ messages[j].safety_verified = ev.safety_verified
                         /\ ev.query_id # NoQueryId => messages[j].id = ev.query_id

(***************************************************************************)
(* C13.  The entry appended for a channel's final carries the records of   *)
(* the stage events delivered on that channel up to then, one each and in  *)
(* order, and nothing else; they are the channel's own, whatever was       *)
(* delivered on another channel meanwhile.                                 *)
(***************************************************************************)
C13_StepsOfTheChannel ==
    [][\A q \in Queries :
          es'[q].appended = es[q].appended + 1 =>
             /\ Len(messages') = Len(messages) + 1
             /\ messages'[Len(messages')].role = "ai"
             /\ messages'[Len(messages')].agentSteps = StepsOf(delivered[q])
             /\ StepsOf(delivered'[q]) = StepsOf(delivered[q])]_vars

\* Two channels answered, one after a failure in Simplify, one in full: an
\* entry with three records and an entry with six.
C13_Witness ==
    \E q, r \in Opened :
        /\ es[q].appended = 1 /\ es[r].appended = 1
        /\ Len(StepsOf(delivered[q])) = 3
        /\ Len(StepsOf(delivered[r])) = 2 * LastStage
        /\ \E i, j \in AiEntries :
              /\ messages[i].agentSteps = StepsOf(delivered[q])
              /\ messages[j].agentSteps = StepsOf(delivered[r])

(***************************************************************************)
(* C16.  The sentinel is no payload: when [DONE] is delivered on a channel *)
(* the handler closes the EventSource and the instance that opened it, if  *)
(* still mounted, stops streaming; the transcript, the steps recorded and  *)
(* the text taken so far are as they were.                                 *)
(***************************************************************************)
C16_SentinelOnlyEnds ==
    [][\A q \in Queries :
          delivered'[q] = Append(delivered[q], Sentinel) =>
             /\ es'[q].readyState = "CLOSED"
             /\ es[q].alive => ~isStreaming'
             /\ messages' = messages
             /\ es'[q].agentSteps = es[q].agentSteps
             /\ es'[q].fullResponse = es[q].fullResponse
             /\ es'[q].appended = es[q].appended]_vars

C16_Witness ==
    \E q \in Opened :
        /\ Len(delivered[q]) = Len(FullTags)
        /\ delivered[q][Len(delivered[q])] = Sentinel
        /\ es[q].readyState = "CLOSED"
        /\ Len(es[q].agentSteps) = 2 * LastStage
        /\ es[q].alive /\ ~isStreaming

(***************************************************************************)
(* C14.  The transcript under the store's operations.                      *)
(***************************************************************************)
\* Two messages that differ at most in the thoughtExpanded flag.
SameButFlag(m, n) ==
    /\ DOMAIN m \ {"thoughtExpanded"} = DOMAIN n \ {"thoughtExpanded"}
    /\ \A f \in DOMAIN m \ {"thoughtExpanded"} : n[f] = m[f]

\* One step keeps every message of the transcript in its position.
Preserved ==
    /\ Len(messages') >= Len(messages)
    /\ \A i \in 1..Len(messages) : SameButFlag(messages[i], messages'[i])

\* C14 as stated: after any sequence of store operations every message that
\* was once in the transcript is still there, in the same position and with
\* the same content, only its thoughtExpanded flag possibly changed.
C14_AppendOnly == [][Preserved]_vars

\* C14, amended: every store operation keeps every message of the transcript
\* in its position and with its content, only the thoughtExpanded flag
\* possibly changed, except clearMessages and reset, which empty the
\* transcript.
C14_AppendOnlyUntilCleared ==
    [][Preserved \/ ((CallClearMessages \/ CallReset) /\ messages' = <<>>)]_vars

\* A message toggled open and another appended behind it.
C14_Witness ==
    /\ Len(messages) = MaxTranscript
    /\ messages[1] = Toggled(AiMessage(ClientQId(1), "a", <<>>, TRUE))
    /\ messages[2] = UserMessage(UserId(1), "q")

(***************************************************************************)
(* C17.  The stored student under the store's operations.                  *)
(***************************************************************************)
\* C17: once a profile is stored, no operation other than reset makes the
\* stored student null, and addXp changes only the xp field of the stored
\* profile, by the amount given.
C17_StudentKept ==
    [][/\ (student # <<>> /\ student' = <<>>) => CallReset
       /\ \A amount \in XpAmounts :
             CallAddXp(amount) =>
                IF student = <<>>
                  THEN student' = <<>>
                  ELSE /\ student' # <<>>
                       /\ student' = <<[student[1] EXCEPT !.xp = student'[1].xp]>>
                       /\ student'[1].xp = student[1].xp + amount]_vars

\* addXp has acted twice on a stored profile.
C17_Witness ==
    /\ student # <<>>
    /\ student[1].student_id = 1
    /\ student[1].xp = 10 + DefaultXp

(***************************************************************************)
(* C15.  The transcript and the student it is shown to.                    *)
(***************************************************************************)
\* The query whose handleSend added the user message at position i: the
\* transcript is never cut, and every accepted send adds one user message
\* and opens the next channel.
QueryOf(i) == Cardinality({j \in UserEntries : j <= i})

\* C15: on the chat screen, the transcript shown to the logged-in student
\* holds no user message that was sent in the session of another student.
C15_TranscriptOfTheStudent ==
    (currentScreen = "chat" /\ student # <<>>) =>
        \A i \in UserEntries : es[QueryOf(i)].student_id = student[1].student_id

(***************************************************************************)
(* C18.  The challenges and the results submitted for them.                *)
(***************************************************************************)
\* The calls of submitGameResult made so far.
Submitted == {s \in Submissions : subs[s].pc # "none" /\ subs[s].student_id # 0}

\* C18: for any one challenge submitGameResult is called at most once, so
\* no challenge is presented and answered again after it was graded correct.
C18_ConsumedOnce ==
    \A s, t \in Submitted : subs[s].challenge = subs[t].challenge => s = t

(***************************************************************************)
(* C19.  The challenge the game shows.                                     *)
(***************************************************************************)
\* C19: every challenge the generator returned has a non-empty list of
\* options without duplicates, and some option of it is graded correct.
C19_ChallengeWellFormed ==
    game.currentChallenge # <<>> =>
        LET ch == game.currentChallenge[1]
        IN  /\ Len(ch.options) > 0
            /\ \A i, j \in 1..Len(ch.options) : ch.options[i] = ch.options[j] => i = j
            /\ \E i \in 1..Len(ch.options) : IsCorrect(ch.options[i], ch)

\* A challenge of two options, the second one correct, has been answered
\* and graded correct.
C19_Witness ==
    /\ game.currentChallenge # <<>>
    /\ Len(game.currentChallenge[1].options) = 2
    /\ game.currentChallenge[1].correct = game.currentChallenge[1].options[2]
    /\ game.feedback = "correct"
    /\ \E s \in Submitted : subs[s].challenge = game.currentChallenge[1].id

(***************************************************************************)
(* C20.  The files handleFileUpload sends.                                 *)
(***************************************************************************)
\* The requests made so far.
Requested == {u \in Uploads : upload.reqs[u].pc # "none"}

\* C20: every upload request carries a PDF of at most 50 MB for a stored
\* student, and a call of handleFileUpload with any other file, or without a
\* student, makes no request and leaves isUploading and uploadProgress as
\* they were.
C20_UploadValidated ==
    /\ [](\A u \in Requested :
             /\ upload.reqs[u].file.type = "application/pdf"
             /\ upload.reqs[u].file.size <= 50 * 1024 * 1024
             /\ upload.reqs[u].student_id # 0)
    /\ [][\A file \in Files, dropped \in BOOLEAN :
             (/\ HandleFileUpload(file, dropped)
              /\ \/ student = <<>>
                 \/ file.type # "application/pdf"
                 \/ file.size > 50 * 1024 * 1024)
             => /\ Requested' = Requested
                /\ isUploading' = isUploading
                /\ uploadProgress' = uploadProgress]_vars

\* A PDF of exactly 50 MB has been sent and accepted by the server, and a
\* second one is on its way.
C20_Witness ==
    /\ upload.reqs[1].pc = "timer"
    /\ upload.reqs[1].file = [type |-> "application/pdf", size |-> MaxFileSize]
    /\ upload.reqs[2].pc = "sent"
    /\ isUploading

(***************************************************************************)
(* C21.  The theme.                                                        *)
(***************************************************************************)
\* C21: the theme starts as dark; only toggleTheme changes it, and each call
\* switches it to the other value; reset leaves it as it is, and so does a
\* reload of the page, the theme being part of what is persisted.
C21_ThemeKept ==
    /\ theme = "dark"
    /\ [][/\ theme' # theme => CallToggleTheme
          /\ CallToggleTheme =>
                theme' = (IF theme = "dark" THEN "light" ELSE "dark")
          /\ CallReset => theme' = theme
          /\ Rehydration => theme' = theme]_vars

\* The light theme after a reload: the transcript and the upload state are
\* the initial ones, the student and the screen are the persisted ones.
C21_Witness ==
    /\ theme = "light"
    /\ student # <<>> /\ student[1].xp = 10 + DefaultXp
    /\ currentScreen = "chat"
    /\ messages = <<>> /\ ~isUploading /\ uploadProgress = 0

(***************************************************************************)
(* C22.  The channels open at one time.                                    *)
(***************************************************************************)
\* C22: at any time at most one EventSource of the client is open.
C22_OneOpenChannel ==
    \A q, r \in Opened :
        (es[q].readyState = "OPEN" /\ es[r].readyState = "OPEN") => q = r

(***************************************************************************)
(* C23.  The channel of a query whose ChatScreen is gone.                  *)
(***************************************************************************)
\* C23: once the user has left the chat screen while a query was streaming,
\* the channel of that query is closed and the query appends no entry to
\* the transcript.
C23_NoEntryAfterLeaving ==
    [][\A q \in Opened :
          ~es[q].alive =>
             /\ es[q].readyState = "CLOSED"
             /\ es'[q].appended = es[q].appended]_vars

(***************************************************************************)
(* C24.  The completion timers of a screen that was left by Back.          *)
(***************************************************************************)
\* C24: a completion timer of a GameScreen or UploadScreen instance that is
\* no longer mounted when it fires leaves the current screen as it is.
C24_StaleTimerKeepsScreen ==
    [][/\ \A s \in Submissions :
             (AnswerTimer(s) /\ ~Live(s)) => currentScreen' = currentScreen
       /\ \A u \in Uploads :
             (UploadTimer(u) /\ ~upload.reqs[u].live) => currentScreen' = currentScreen]_vars

(***************************************************************************)
(* C25, C26, C27.  The upload flags and the requests in flight.            *)
(***************************************************************************)
\* The requests awaiting their response, those the server answered, and
\* those that failed.
Pending == {u \in Uploads : upload.reqs[u].pc = "sent"}
Succeeded == {u \in Uploads : upload.reqs[u].pc \in {"timer", "done"}}

\* C25: isUploading is true only while an upload request is in flight.
C25_UploadingOnlyInFlight == isUploading => Pending # {}

\* C26: when every upload made so far has failed, uploadProgress is 0;
\* while a request is pending it is at most 90; and it is 100 only after a
\* successful response.
C26_ProgressFollowsUpload ==
    /\ (Requested # {} /\ \A u \in Requested : upload.reqs[u].pc = "failed")
          => uploadProgress = 0
    /\ Pending # {} => uploadProgress <= 90
    /\ uploadProgress = 100 => Succeeded # {}

\* C27: at most one upload request is in flight at any time.
C27_OneUploadInFlight == Cardinality(Pending) <= 1

(***************************************************************************)
(* C28.  The audios playing.                                               *)
(***************************************************************************)
\* The audios the mounted chat screen started that are playing.
Playing == {c \in Speaks : speech.calls[c].live /\ speech.calls[c].pc = "playing"}

\* C28: at most one audio plays at any time, and the one that plays reads
\* the message speakingMessageId names.
C28_OneVoice ==
    /\ Cardinality(Playing) <= 1
    /\ \A c \in Playing : speech.calls[c].messageId = speech.speakingMessageId

(***************************************************************************)
(* C29.  The rounds of the game.                                           *)
(***************************************************************************)
\* C29: the challenge shown in rounds 1, 2 and 3 is of type iq, eq and
\* concept; the round counter of a game moves only by the timer of a correct
\* answer given in it, one round at a time; and the game screen gives way to
\* the upload screen only by the timer of the third correct answer of the
\* game on screen.
C29_AdvancesByCorrectAnswers ==
    /\ []((game.mounted /\ ~game.isGenerating /\ game.currentChallenge # <<>>) =>
            game.currentChallenge[1].type = ChallengeType(game.challengeCount))
    /\ [][/\ (game'.mounted /\ game'.inst = game.inst
                /\ game'.challengeCount # game.challengeCount) =>
                  (/\ game'.challengeCount = game.challengeCount + 1
                   /\ \E s \in Submissions : AnswerTimer(s) /\ Live(s))
          /\ (currentScreen = "game" /\ currentScreen' = "upload") =>
                  (\E s \in Submissions :
                      AnswerTimer(s) /\ Live(s) /\ subs[s].count = Rounds - 1)]_vars

(***************************************************************************)
(* C30.  The answers that count for nothing.                               *)
(***************************************************************************)
\* C30: a call of handleAnswer with a wrong option, or made while feedback
\* is shown or while no challenge is loaded, makes no call of
\* submitGameResult and leaves the student (and so the XP), the server's
\* record, challengeCount and currentChallenge as they were.
C30_RejectedAnswerChangesNothing ==
    [][\A selectedOption \in OptionTexts :
          (/\ HandleAnswer(selectedOption)
           /\ \/ game.currentChallenge = <<>>
              \/ game.feedback # "none"
              \/ selectedOption # game.currentChallenge[1].correct) =>
             (/\ subs' = subs
              /\ store' = store
              /\ student' = student
              /\ game'.challengeCount = game.challengeCount
              /\ game'.currentChallenge = game.currentChallenge)]_vars

\* In round 2, after one result that earned the default XP, a wrong option
\* was clicked and its feedback is shown.
C30_Witness ==
    /\ currentScreen = "game"
    /\ game.feedback = "wrong"
    /\ game.challengeCount = 1
    /\ game.currentChallenge # <<>>
    /\ game.currentChallenge[1].type = "eq"
    /\ student # <<>>
    /\ student[1].xp = DefaultXp
    /\ Cardinality(Submitted) = 1

====
